---------------------------- MODULE Spec2Model ----------------------------
(***************************************************************************)
(* The question-answering pipeline of src/graph_workflow.py (GraphWorkflow)*)
(* as a state machine: one run of the compiled LangGraph workflow over the *)
(* channels of OverallState (src/models.py).  The language model and the   *)
(* graph store are external collaborators: what they return is drawn from  *)
(* small sets, what the node functions do with it is translated from the   *)
(* code.                                                                   *)
(***************************************************************************)
EXTENDS Naturals, Sequences, FiniteSets, TLC

VARIABLES
    pc,                     \* the node the workflow runs next, "END", or "ABORTED" (a node raised)
    channels,               \* the keys of the state that hold a value
    question,               \* OverallState.question
    next_action,            \* OverallState.next_action
    cypher_statement,       \* OverallState.cypher_statement
    cypher_errors,          \* OverallState.cypher_errors
    database_records,       \* OverallState.database_records
    steps,                  \* OverallState.steps
    answer,                 \* OutputState.answer
    cypher_query_corrector, \* GraphWorkflow.cypher_query_corrector: TRUE when built, FALSE when None
    guardrails_output,      \* _guardrails: the classifier's decision
    entered_statement,      \* _validate_cypher: state.get("cypher_statement") on entry
    dry_run,                \* _validate_cypher: outcome of the EXPLAIN query
    llm_output,             \* _validate_cypher: the ValidateCypherOutput of the semantic check
    probes,                 \* _validate_cypher: per filter, what its existence probe returned
    mapping_errors,         \* _validate_cypher: the local list mapping_errors
    executed_statement,     \* _execute_cypher: the statement handed to db_manager.query
    records,                \* _execute_cypher: what db_manager.query returned
    caught,                 \* _execute_cypher: str(e) of the exception it caught, "" when none
    failure,                \* which call raised out of a node ("none" while no node has raised)
    semantic_check_cypher,  \* _validate_cypher: the "cypher" handed to validate_cypher_chain
    corrector_cypher,       \* _correct_cypher: the "cypher" handed to correct_cypher_chain
    corrector_errors,       \* _correct_cypher: the "errors" handed to correct_cypher_chain
    agent_result,           \* NetworkIntelligenceAgent.answer_question: the dict it returns
    fewshot_examples,       \* _generate_cypher: the few-shot block handed to text2cypher_chain
    environment,            \* the process environment Config reads, setting by setting
    front_end,              \* the script started: main.py, agent.py or streamlit_app.py
    startup,                \* where the front end's startup stands
    scripts,                \* concurrent runs: per run, the answers its calls are given
    runs                    \* concurrent runs: per run, the state invoke keeps for it

\* the state of the one run
run_vars == <<pc, channels, question, next_action, cypher_statement, cypher_errors,
          database_records, steps, answer, cypher_query_corrector,
          guardrails_output, entered_statement, dry_run, llm_output, probes,
          mapping_errors, executed_statement, records, caught, failure,
          semantic_check_cypher, corrector_cypher, corrector_errors, agent_result,
          fewshot_examples>>

startup_vars == <<environment, front_end, startup>>
concurrent_vars == <<scripts, runs>>

vars == <<run_vars, startup_vars, concurrent_vars>>

---------------------------------------------------------------------------
(* Bounds of the model *)

\* how many times correct_cypher may run in a modelled run (the code has no cap)
MaxCorrections == 2
\* how many filters the semantic check may extract in one pass
MaxFilters == 2
\* the same, in the runs checked for termination
LiveMaxFilters == 1
\* how many runs are invoked concurrently on one GraphWorkflow
MaxRuns == 2

---------------------------------------------------------------------------
(* Statements.  A statement is the text of one Cypher query; the model     *)
(* keeps what the direction corrector reads of it: the labels of the two   *)
(* nodes of its relationship pattern, the relationship type and the arrow. *)

Stmt(l, t, d, r) == [left |-> l, rel |-> t, dir |-> d, right |-> r]

\* the empty string ""
EmptyStatement == Stmt("", "", "", "")
\* the value of a channel that holds nothing yet (state.get returns None)
NoStatement == Stmt("None", "None", "None", "None")

\* MATCH (p:Person {id: ..}) RETURN ..           (no relationship pattern)
StmtPerson == Stmt("Person", "", "", "")
\* (p:Person)-[:WORKSFOR]->(o:Organization)
StmtWorksFor == Stmt("Person", "WORKSFOR", "->", "Organization")
\* (o:Organization)-[:WORKSFOR]->(p:Person)      (reversed)
StmtWorksForReversed == Stmt("Organization", "WORKSFOR", "->", "Person")
\* (p:Person)<-[:KNOWS]-(q:Person)
StmtKnowsIncoming == Stmt("Person", "KNOWS", "<-", "Person")
\* (p:Person)-[:ATTENDEE]-(o:Organization)       (undirected, Person-Event in the schema)
StmtAttendeeUndirected == Stmt("Person", "ATTENDEE", "-", "Organization")
\* (p:Person)-[:MANAGES]->(o:Organization)       (type absent from the schema)
StmtManages == Stmt("Person", "MANAGES", "->", "Organization")
\* (e:Event)<-[:ATTENDEE]-(p:Person)
StmtAttendeeIncoming == Stmt("Event", "ATTENDEE", "<-", "Person")

\* what the free-text model calls (text2cypher_chain, correct_cypher_chain) may return
Statements ==
    { StmtPerson, StmtWorksFor, StmtWorksForReversed, StmtKnowsIncoming,
      StmtAttendeeUndirected, StmtManages, StmtAttendeeIncoming }

\* Python truthiness of a string
TruthyStatement(s) == s # EmptyStatement /\ s # NoStatement

---------------------------------------------------------------------------
(* The schema of the store: structured_schema["relationships"] and         *)
(* structured_schema["node_props"], read once at construction.             *)

Relationships ==
    { [start |-> "Person", type |-> "WORKSFOR", end |-> "Organization"],
      [start |-> "Person", type |-> "KNOWS",    end |-> "Person"],
      [start |-> "Person", type |-> "ATTENDEE", end |-> "Event"] }

NodeProps ==
    { [label |-> "Person",       property |-> "id",   type |-> "STRING"],
      [label |-> "Person",       property |-> "age",  type |-> "INTEGER"],
      [label |-> "Organization", property |-> "id",   type |-> "STRING"] }

\* corrector_schema: one Schema(start, type, end) per relationship
corrector_schema == { <<el.start, el.type, el.end>> : el \in Relationships }

\* CypherQueryCorrector.verify_schema
verify_schema(from_label, rel_type, to_label) ==
    \E s \in corrector_schema : s[1] = from_label /\ s[2] = rel_type /\ s[3] = to_label

\* self.cypher_query_corrector(statement): the statement with the arrow of its
\* relationship pattern turned to the schema's direction, "" when neither
\* direction fits the schema, the statement itself when it has no pattern.
\* the corrector judging an incoming arrow by the wrong end
CypherQueryCorrector_IncomingMisread(s) ==
    IF s.rel = "" THEN s
    ELSE IF s.dir = "->" THEN
        IF verify_schema(s.left, s.rel, s.right) THEN s
        ELSE IF verify_schema(s.right, s.rel, s.left) THEN [s EXCEPT !.dir = "<-"]
        ELSE EmptyStatement
    ELSE IF s.dir = "<-" THEN
        IF verify_schema(s.left, s.rel, s.right) /\ s.left # s.right THEN s
        ELSE IF verify_schema(s.right, s.rel, s.left) THEN [s EXCEPT !.dir = "->"]
        ELSE EmptyStatement
    ELSE
        IF verify_schema(s.left, s.rel, s.right) \/ verify_schema(s.right, s.rel, s.left)
        THEN s
        ELSE EmptyStatement

CypherQueryCorrector(s) ==
    IF s.rel = "" THEN s
    ELSE IF s.dir = "->" THEN
        IF verify_schema(s.left, s.rel, s.right) THEN s
        ELSE IF verify_schema(s.right, s.rel, s.left) THEN [s EXCEPT !.dir = "<-"]
        ELSE EmptyStatement
    ELSE IF s.dir = "<-" THEN
        IF verify_schema(s.right, s.rel, s.left) THEN s
        ELSE IF verify_schema(s.left, s.rel, s.right) THEN [s EXCEPT !.dir = "->"]
        ELSE EmptyStatement
    ELSE
        IF verify_schema(s.left, s.rel, s.right) \/ verify_schema(s.right, s.rel, s.left)
        THEN s
        ELSE EmptyStatement

---------------------------------------------------------------------------
(* Values of the state *)

Questions == { "Tell me about Michael Dell", "What is the weather today?" }

\* the nodes of the workflow, in the order add_node names them
Nodes ==
    { "guardrails", "generate_cypher", "validate_cypher", "correct_cypher",
      "execute_cypher", "generate_final_answer" }

\* database_records holds None, a str or a list of rows
PyNone == [type |-> "NoneType", str |-> "", list |-> <<>>]
PyStr(text) == [type |-> "str", str |-> text, list |-> <<>>]
PyList(rows) == [type |-> "list", str |-> "", list |-> rows]

\* the refusal message of _guardrails
RefusalMessage ==
    "This question is not about people, organizations, or professional networking. Therefore I cannot answer this question."
\* no_results of _execute_cypher
no_results == "I couldn't find any relevant information in the database"
\* the error appended when the corrector returns nothing
SchemaMismatchMessage == "The generated Cypher statement doesn't fit the graph schema"
\* e.message of the CypherSyntaxError the store raised for EXPLAIN
SyntaxErrorMessage == "Invalid input: expected a Cypher clause"
\* str(e) of the exception the store raised for the real query
StoreErrorText == "Neo.ClientError.Statement"

\* the rows the store may return for the executed statement
RowSets == { <<>>, <<"row1">>, <<"row1", "row2">> }

\* the answers the final chain may return
Answers == { "answer text" }

---------------------------------------------------------------------------
(* The semantic check's structured output (ValidateCypherOutput) *)

Property(l, k, v) == [node_label |-> l, property_key |-> k, property_value |-> v]

\* filters the model may extract: a string property, a non-string property,
\* a property the label does not declare, a label the schema does not have
Filters ==
    { Property("Person", "id", "Michael Dell"),
      Property("Person", "age", "42"),
      Property("Person", "nickname", "Mike"),
      Property("Robot", "id", "R2") }

RECURSIVE SeqsUpTo(_, _)
SeqsUpTo(S, n) ==
    IF n = 0 THEN { <<>> }
    ELSE LET shorter == SeqsUpTo(S, n - 1)
         IN  shorter \cup { Append(q, x) : q \in { t \in shorter : Len(t) = n - 1 }, x \in S }

\* errors: None and [] are both falsy and are one value here
LlmErrorLists == { <<>>, <<"Variable o is not defined", "Label Company is not in the schema">> }

ValidateCypherOutputs ==
    [errors : LlmErrorLists, filters : SeqsUpTo(Filters, MaxFilters)]

\* llm_output before the first pass
NoLlmOutput == [errors |-> <<>>, filters |-> <<>>]

\* the condition under which _validate_cypher probes the store for a filter:
\* the label is in node_props and the property is declared STRING on it
\* the filter test without the test of the declared type
IsStringFilter_AnyType(f) ==
    /\ \E p \in NodeProps : p.label = f.node_label
    /\ \E p \in NodeProps : p.label = f.node_label /\ p.property = f.property_key

IsStringFilter(f) ==
    /\ \E p \in NodeProps : p.label = f.node_label
    /\ \E p \in NodeProps :
          p.label = f.node_label /\ p.property = f.property_key /\ p.type = "STRING"

\* what happens to one filter: "none" when no probe is issued for it, else
\* what the store answered the probe: "row" (a match) or "empty" (no match)
ProbeOutcomes(f) == IF IsStringFilter(f) THEN { "row", "empty" } ELSE { "none" }

\* the outcomes of the probes of one pass, filter by filter
ProbeSeqs(filters) ==
    { q \in [1..Len(filters) -> { "none", "row", "empty" }] :
        \A i \in 1..Len(filters) : q[i] \in ProbeOutcomes(filters[i]) }

\* the message appended to mapping_errors for a filter whose probe found nothing
MissingValueMapping(f) ==
    "Missing value mapping for " \o f.node_label \o " on property "
        \o f.property_key \o " with value " \o f.property_value

\* the loop over llm_output.filters, from the i-th filter on
RECURSIVE MappingErrorsOf(_, _, _)
MappingErrorsOf(filters, probe, i) ==
    IF i > Len(filters) THEN <<>>
    ELSE (IF probe[i] = "empty" THEN <<MissingValueMapping(filters[i])>> ELSE <<>>)
         \o MappingErrorsOf(filters, probe, i + 1)

---------------------------------------------------------------------------
(* The collaborators' answers that depend on the statement *)

\* EXPLAIN <statement>: accepted, or rejected with a CypherSyntaxError; the
\* empty statement is never accepted
DryRunOutcomes(s) ==
    IF TruthyStatement(s) THEN { "ok", "syntax_error" } ELSE { "syntax_error" }

\* the real query: rows, or an exception; the store raises for the empty
\* statement and for a statement it has just rejected in the dry run
ExecuteOutcomes(s, dry) ==
    IF TruthyStatement(s) /\ dry # "syntax_error"
    THEN { [raised |-> FALSE, rows |-> r] : r \in RowSets }
            \cup { [raised |-> TRUE, rows |-> <<>>] }
    ELSE { [raised |-> TRUE, rows |-> <<>>] }

---------------------------------------------------------------------------
(* The pure parts of the node functions *)

Count(seq, x) == Cardinality({ i \in DOMAIN seq : seq[i] = x })


\* StepsPlus as a node written for a reducing channel would return it: ["node"]
StepsPlus_Reset(node) == <<node>>
\* state.get("steps", []) + [node]
StepsPlus(node) == (IF "steps" \in channels THEN steps ELSE <<>>) \o <<node>>

\* _guardrails: database_records for a decision
GuardrailsRecords_AlwaysNone(decision) == PyNone

GuardrailsRecords(decision) ==
    IF decision = "end" THEN PyStr(RefusalMessage) ELSE PyNone


\* guardrails_condition with its two targets exchanged
guardrails_condition_Swapped(na) ==
    IF na = "end" THEN "generate_cypher"
    ELSE IF na = "network" THEN "generate_final_answer"
    ELSE "None"
\* _guardrails_condition; "None" when no branch is taken
guardrails_condition(na) ==
    IF na = "end" THEN "generate_final_answer"
    ELSE IF na = "network" THEN "generate_cypher"
    ELSE "None"


\* validate_cypher_condition never taking the execute_cypher branch
validate_cypher_condition_NeverExecutes(na) ==
    IF na = "end" THEN "generate_final_answer"
    ELSE IF na = "correct_cypher" THEN "correct_cypher"
    ELSE IF na = "execute_cypher" THEN "correct_cypher"
    ELSE "None"
\* validate_cypher_condition sending an accepted statement straight to the answer
validate_cypher_condition_SkipsExecute(na) ==
    IF na = "end" THEN "generate_final_answer"
    ELSE IF na = "correct_cypher" THEN "correct_cypher"
    ELSE IF na = "execute_cypher" THEN "generate_final_answer"
    ELSE "None"
\* _validate_cypher_condition; "None" when no branch is taken
validate_cypher_condition(na) ==
    IF na = "end" THEN "generate_final_answer"
    ELSE IF na = "correct_cypher" THEN "correct_cypher"
    ELSE IF na = "execute_cypher" THEN "execute_cypher"
    ELSE "None"


\* CorrectedCypher with corrected_cypher initialised to "" instead of the statement
CorrectedCypher_NoDefault(s) ==
    IF cypher_query_corrector THEN CypherQueryCorrector(s) ELSE EmptyStatement
\* _validate_cypher: corrected_cypher
CorrectedCypher_ReturnsInput(s) == s

CorrectedCypher(s) ==
    IF cypher_query_corrector THEN CypherQueryCorrector(s) ELSE s


\* ValidationErrors reporting a mismatch whenever the corrector changed the statement
\* ValidationErrors running the schema check although no corrector was built
ValidationErrors_AlwaysChecksSchema(s, dry, out) ==
    (IF dry = "syntax_error" THEN <<SyntaxErrorMessage>> ELSE <<>>)
    \o (IF ~TruthyStatement(CypherQueryCorrector(s))
        THEN <<SchemaMismatchMessage>> ELSE <<>>)
    \o out.errors
ValidationErrors_RewriteIsError(s, dry, out) ==
    (IF dry = "syntax_error" THEN <<SyntaxErrorMessage>> ELSE <<>>)
    \o (IF cypher_query_corrector /\ CypherQueryCorrector(s) # s
        THEN <<SchemaMismatchMessage>> ELSE <<>>)
    \o out.errors
\* _validate_cypher: the list errors at the return
ValidationErrors(s, dry, out) ==
    (IF dry = "syntax_error" THEN <<SyntaxErrorMessage>> ELSE <<>>)
    \o (IF cypher_query_corrector /\ ~TruthyStatement(CypherQueryCorrector(s))
        THEN <<SchemaMismatchMessage>> ELSE <<>>)
    \o out.errors


\* ValidationNextAction treating a missing value mapping like any other error
ValidationNextAction_MappingFatal(errors, mapping) ==
    IF mapping # <<>> \/ errors # <<>> THEN "correct_cypher" ELSE "execute_cypher"
\* ValidationNextAction sending a missing value mapping to correction
ValidationNextAction_MappingCorrects(errors, mapping) ==
    IF mapping # <<>> THEN "correct_cypher"
    ELSE IF errors # <<>> THEN "correct_cypher"
    ELSE "execute_cypher"
\* ValidationNextAction naming a stage the conditional edge does not know
ValidationNextAction_UnknownTarget(errors, mapping) ==
    IF mapping # <<>> THEN "generate_final_answer"
    ELSE IF errors # <<>> THEN "correct_cypher"
    ELSE "execute_cypher"
\* ValidationNextAction counting the corrections made
ValidationNextAction_Capped(errors, mapping) ==
    IF mapping # <<>> THEN "execute_cypher"
    ELSE IF errors # <<>> /\ Count(steps, "correct_cypher") < 1 THEN "correct_cypher"
    ELSE "execute_cypher"
\* _validate_cypher: next_action from the two lists
ValidationNextAction(errors, mapping) ==
    IF mapping # <<>> THEN "execute_cypher"
    ELSE IF errors # <<>> THEN "correct_cypher"
    ELSE "execute_cypher"


\* ExecuteRecords without the substitution of no_results
ExecuteRecords_NoSentinel(result) ==
    IF result.raised THEN PyStr("Error executing query: " \o StoreErrorText)
    ELSE PyList(result.rows)
\* _execute_cypher: database_records from what the store returned
ExecuteRecords(result) ==
    IF result.raised THEN PyStr("Error executing query: " \o StoreErrorText)
    ELSE IF result.rows # <<>> THEN PyList(result.rows)
    ELSE PyStr(no_results)

\* _generate_final_answer: state.get("cypher_statement", "")
FinalCypherStatement_Empty == EmptyStatement

FinalCypherStatement ==
    IF "cypher_statement" \in channels THEN cypher_statement ELSE EmptyStatement

\* ChainManager.examples, in bank order
examples ==
    << [question |-> "Tell me about Michael Dell",
        query |-> "MATCH (p:Person {id: 'Michael Dell'}) RETURN p.id as name"],
       [question |-> "What organizations does Michael Dell work for?",
        query |-> "MATCH (p:Person {id: 'Michael Dell'})-[:WORKSFOR]->(o:Organization) RETURN o.id as organization"],
       [question |-> "Who does Michael Dell know?",
        query |-> "MATCH (p:Person {id: 'Michael Dell'})-[:KNOWS]->(other:Person) RETURN other.id as person"],
       [question |-> "What events has Michael Dell attended?",
        query |-> "MATCH (p:Person {id: 'Michael Dell'})-[:ATTENDEE]->(e:Event) RETURN e.id as event"],
       [question |-> "What is Michael Dell an alumnus of?",
        query |-> "MATCH (p:Person {id: 'Michael Dell'})-[:ALUMNIOF]->(o:Organization) RETURN o.id as organization"],
       [question |-> "What topics does Michael Dell know about?",
        query |-> "MATCH (p:Person {id: 'Michael Dell'})-[:KNOWSABOUT]->(thing:Thing) RETURN p.id AS person, thing.id AS concept"],
       [question |-> "Who works for Dell Technologies?",
        query |-> "MATCH (p:Person)-[:WORKSFOR]->(o:Organization {id: 'Dell Technologies'}) RETURN p.id as person"],
       [question |-> "What organizations are in the database?",
        query |-> "MATCH (o:Organization) RETURN o.id as organization"],
       [question |-> "What concepts does Michael Dell know about?",
        query |-> "MATCH (p:Person {id: 'Michael Dell'})-[:KNOWSABOUT]->(thing:Thing) RETURN thing.id AS concept"],
       [question |-> "What are Michael Dell's professional connections?",
        query |-> "MATCH (p:Person {id: 'Michael Dell'})-[:KNOWS]->(other:Person) RETURN other.id as connection"] >>

\* how many examples get_fewshot_examples takes: self.examples[:5]
FewshotCount == 5

NL == "\n"

\* f"Question: {el['question']}{NL}Cypher:{el['query']}"
FewshotEntry(el) == "Question: " \o el.question \o NL \o "Cypher:" \o el.query

\* separator.join(entries), from the i-th entry on
RECURSIVE Join(_, _, _)
Join(separator, entries, i) ==
    IF i > Len(entries) THEN ""
    ELSE IF i = Len(entries) THEN entries[i]
    ELSE entries[i] \o separator \o Join(separator, entries, i + 1)

\* seq[:n]
Slice(seq, n) == SubSeq(seq, 1, IF n < Len(seq) THEN n ELSE Len(seq))

\* get_fewshot_examples ranking the bank by the question: the example whose
\* question is the one asked comes last instead of first
get_fewshot_examples_Ranked(q) ==
    LET ranked == SelectSeq(examples, LAMBDA el : el.question # q)
                    \o SelectSeq(examples, LAMBDA el : el.question = q)
        taken == Slice(ranked, FewshotCount)
    IN  Join(NL \o NL, [i \in DOMAIN taken |-> FewshotEntry(taken[i])], 1)

\* ChainManager.get_fewshot_examples
get_fewshot_examples(q) ==
    LET taken == Slice(examples, FewshotCount)
    IN  Join(NL \o NL, [i \in DOMAIN taken |-> FewshotEntry(taken[i])], 1)

\* _validate_cypher: the statement it hands to the semantic check
SemanticCheckCypher(s) == s

ReturnedCypherErrors_Accumulated(errors) == cypher_errors \o errors

\* _validate_cypher: the value it returns for the channel cypher_errors
ReturnedCypherErrors(errors) == errors

\* answer_question has not returned
NoResult ==
    [returned |-> FALSE, success |-> FALSE, question |-> "", answer |-> "",
     steps |-> <<>>, cypher_query |-> NoStatement, error |-> ""]

\* answer_question: the dict returned when workflow.invoke returned
AgentSuccess(q, final_answer, final_steps, statement) ==
    [returned |-> TRUE, success |-> TRUE, question |-> q, answer |-> final_answer,
     steps |-> final_steps, cypher_query |-> statement, error |-> ""]

AgentFailure_KeepsSteps(q, e) ==
    [returned |-> TRUE, success |-> FALSE, question |-> q,
     answer |-> "Sorry, I encountered an error: " \o e,
     steps |-> steps, cypher_query |-> FinalCypherStatement, error |-> e]

\* answer_question: the dict returned when workflow.invoke raised e
AgentFailure(q, e) ==
    [returned |-> TRUE, success |-> FALSE, question |-> q,
     answer |-> "Sorry, I encountered an error: " \o e,
     steps |-> <<"error">>, cypher_query |-> EmptyStatement, error |-> e]

RaisingCalls_ExecuteUnguarded(node) ==
    CASE node = "guardrails" -> { "guardrails_chain" }
      [] node = "generate_cypher" -> { "text2cypher_chain" }
      [] node = "validate_cypher" ->
            { "explain_client_error", "explain_unavailable", "validate_cypher_chain", "probe" }
      [] node = "correct_cypher" -> { "correct_cypher_chain" }
      [] node = "execute_cypher" -> { "execute" }
      [] node = "generate_final_answer" -> { "generate_final_chain" }
      [] OTHER -> {}

\* the calls of a node whose exception leaves the node (and ends the run).
\* For the EXPLAIN query these are the exceptions other than CypherSyntaxError:
\* the store rejecting the statement with another client error, and the
\* store not answering.
RaisingCalls(node) ==
    CASE node = "guardrails" -> { "guardrails_chain" }
      [] node = "generate_cypher" -> { "text2cypher_chain" }
      [] node = "validate_cypher" ->
            { "explain_client_error", "explain_unavailable", "validate_cypher_chain", "probe" }
      [] node = "correct_cypher" -> { "correct_cypher_chain" }
      [] node = "generate_final_answer" -> { "generate_final_chain" }
      [] OTHER -> {}

---------------------------------------------------------------------------
(* The state machine *)

---------------------------------------------------------------------------
(* Configuration *)

\* the settings the front ends need
Settings == { "OPENAI_API_KEY", "NEO4J_PASSWORD", "NEO4J_URI" }

\* a setting of the environment: not there, there and empty, there with a value
EnvValues == { "absent", "empty", "set" }

FrontEnds == { "main.py", "agent.py", "streamlit_app.py" }

\* os.getenv(setting, default): the class attribute of Config
Getenv(env, setting, default) ==
    IF env[setting] = "absent" THEN default
    ELSE IF env[setting] = "empty" THEN ""
    ELSE "value"

\* the attributes of Config for an environment
Config(env) ==
    [ OPENAI_API_KEY |-> Getenv(env, "OPENAI_API_KEY", "None"),
      NEO4J_PASSWORD |-> Getenv(env, "NEO4J_PASSWORD", "password"),
      NEO4J_URI      |-> Getenv(env, "NEO4J_URI", "bolt://localhost:7687") ]

\* Python truthiness of an attribute
Falsy(value) == value \in { "None", "" }

\* Config.validate: TRUE when it returns, FALSE when it raises ValueError
validate(cfg) == ~Falsy(cfg.OPENAI_API_KEY) /\ ~Falsy(cfg.NEO4J_PASSWORD)

RunInit ==
    /\ pc = "guardrails"
    /\ channels = { "question" }
    /\ question \in Questions
    /\ next_action = "None"
    /\ cypher_statement = NoStatement
    /\ cypher_errors = <<>>
    /\ database_records = PyNone
    /\ steps = <<>>
    /\ answer = ""
    /\ cypher_query_corrector \in BOOLEAN
    /\ guardrails_output = "None"
    /\ entered_statement = NoStatement
    /\ dry_run = "None"
    /\ llm_output = NoLlmOutput
    /\ probes = <<>>
    /\ mapping_errors = <<>>
    /\ executed_statement = NoStatement
    /\ records = PyNone
    /\ caught = ""
    /\ failure = "none"
    /\ semantic_check_cypher = NoStatement
    /\ corrector_cypher = NoStatement
    /\ corrector_errors = <<>>
    /\ agent_result = NoResult
    /\ fewshot_examples = ""

\* a workflow constructed by a front end whose settings are all present,
\* with one question to answer
Init ==
    /\ RunInit
    /\ environment = [ setting \in Settings |-> "set" ]
    /\ front_end = "agent.py"
    /\ startup = "serving"
    /\ scripts = <<>>
    /\ runs = <<>>

\* the locals of the last _validate_cypher pass; they are gone (as at Init)
\* once _correct_cypher has produced the statement of the next pass
validate_locals ==
    <<entered_statement, dry_run, llm_output, probes, mapping_errors, semantic_check_cypher>>
\* the arguments of the last correct_cypher_chain call; they are gone once
\* the next _validate_cypher pass has run
correct_locals == <<corrector_cypher, corrector_errors>>
execute_locals == <<executed_statement, records, caught>>

Guardrails ==
    /\ startup = "serving"
    /\ pc = "guardrails"
    /\ \E decision \in { "network", "end" } :
        /\ guardrails_output' = decision
        /\ next_action' = decision
        /\ database_records' = GuardrailsRecords(decision)
        /\ steps' = StepsPlus("guardrails")
        /\ pc' = guardrails_condition(decision)
    /\ channels' = channels \cup { "next_action", "database_records", "steps" }
    /\ UNCHANGED <<question, cypher_statement, cypher_errors, answer,
                   cypher_query_corrector, validate_locals, correct_locals,
                   execute_locals, failure, agent_result, fewshot_examples>>
    /\ UNCHANGED <<startup_vars, concurrent_vars>>

GenerateCypher ==
    /\ pc = "generate_cypher"
    /\ fewshot_examples' = get_fewshot_examples(question)
    /\ \E generated_cypher \in Statements : cypher_statement' = generated_cypher
    /\ steps' = StepsPlus("generate_cypher")
    /\ channels' = channels \cup { "cypher_statement", "steps" }
    /\ pc' = "validate_cypher"
    /\ UNCHANGED <<question, next_action, cypher_errors, database_records, answer,
                   cypher_query_corrector, guardrails_output, validate_locals,
                   correct_locals, execute_locals, failure, agent_result>>
    /\ UNCHANGED <<startup_vars, concurrent_vars>>

ValidateCypher ==
    /\ pc = "validate_cypher"
    /\ dry_run' \in DryRunOutcomes(cypher_statement)
    /\ llm_output' \in ValidateCypherOutputs
    /\ probes' \in ProbeSeqs(llm_output'.filters)
    /\ LET errors == ValidationErrors(cypher_statement, dry_run', llm_output')
           mapping == MappingErrorsOf(llm_output'.filters, probes', 1)
       IN  /\ entered_statement' = cypher_statement
           /\ semantic_check_cypher' = SemanticCheckCypher(cypher_statement)
           /\ mapping_errors' = mapping
           /\ next_action' = ValidationNextAction(errors, mapping)
           /\ cypher_statement' = CorrectedCypher(cypher_statement)
           /\ cypher_errors' = ReturnedCypherErrors(errors)
           /\ pc' = validate_cypher_condition(ValidationNextAction(errors, mapping))
    /\ steps' = StepsPlus("validate_cypher")
    /\ channels' = channels \cup { "next_action", "cypher_statement", "cypher_errors", "steps" }
    /\ corrector_cypher' = NoStatement
    /\ corrector_errors' = <<>>
    /\ UNCHANGED <<question, database_records, answer, cypher_query_corrector,
                   guardrails_output, execute_locals, failure, agent_result,
                   fewshot_examples>>
    /\ UNCHANGED <<startup_vars, concurrent_vars>>

CorrectCypher ==
    /\ pc = "correct_cypher"
    /\ Count(steps, "correct_cypher") < MaxCorrections
    /\ \E corrected_cypher \in Statements : cypher_statement' = corrected_cypher
    /\ next_action' = "validate_cypher"
    /\ steps' = StepsPlus("correct_cypher")
    /\ channels' = channels \cup { "next_action", "cypher_statement", "steps" }
    /\ pc' = "validate_cypher"
    /\ entered_statement' = NoStatement
    /\ dry_run' = "None"
    /\ llm_output' = NoLlmOutput
    /\ probes' = <<>>
    /\ mapping_errors' = <<>>
    /\ semantic_check_cypher' = NoStatement
    /\ corrector_cypher' = cypher_statement
    /\ corrector_errors' = cypher_errors
    /\ UNCHANGED <<question, cypher_errors, database_records, answer,
                   cypher_query_corrector, guardrails_output, execute_locals, failure,
                   agent_result, fewshot_examples>>
    /\ UNCHANGED <<startup_vars, concurrent_vars>>

ExecuteCypher ==
    /\ pc = "execute_cypher"
    /\ \E result \in ExecuteOutcomes(cypher_statement, dry_run) :
        /\ records' = (IF result.raised THEN PyNone ELSE PyList(result.rows))
        /\ caught' = (IF result.raised THEN StoreErrorText ELSE "")
        /\ database_records' = ExecuteRecords(result)
    /\ executed_statement' = cypher_statement
    /\ next_action' = "end"
    /\ steps' = StepsPlus("execute_cypher")
    /\ channels' = channels \cup { "database_records", "next_action", "steps" }
    /\ pc' = "generate_final_answer"
    /\ UNCHANGED <<question, cypher_statement, cypher_errors, answer,
                   cypher_query_corrector, guardrails_output, validate_locals,
                   correct_locals, failure, agent_result, fewshot_examples>>
    /\ UNCHANGED <<startup_vars, concurrent_vars>>

GenerateFinalAnswer ==
    /\ pc = "generate_final_answer"
    /\ \E final_answer \in Answers :
        /\ answer' = final_answer
        /\ agent_result' = AgentSuccess(question, final_answer,
                                        StepsPlus("generate_final_answer"),
                                        FinalCypherStatement)
    /\ steps' = StepsPlus("generate_final_answer")
    /\ cypher_statement' = FinalCypherStatement
    /\ channels' = channels \cup { "answer", "steps", "cypher_statement" }
    /\ pc' = "END"
    /\ UNCHANGED <<question, next_action, cypher_errors, database_records,
                   cypher_query_corrector, guardrails_output, validate_locals,
                   correct_locals, execute_locals, failure, fewshot_examples>>
    /\ UNCHANGED <<startup_vars, concurrent_vars>>

\* an exception leaves a node: the node writes nothing, workflow.invoke
\* raises and answer_question returns its failure dict
NodeRaises ==
    /\ pc \in Nodes
    /\ \E call \in RaisingCalls(pc) :
        /\ failure' = call
        /\ agent_result' = AgentFailure(question, call)
    /\ pc' = "ABORTED"
    /\ UNCHANGED <<channels, question, next_action, cypher_statement, cypher_errors,
                   database_records, steps, answer, cypher_query_corrector,
                   guardrails_output, validate_locals, correct_locals, execute_locals,
                   fewshot_examples>>
    /\ UNCHANGED <<startup_vars, concurrent_vars>>

Next ==
    \/ Guardrails
    \/ GenerateCypher
    \/ ValidateCypher
    \/ CorrectCypher
    \/ ExecuteCypher
    \/ GenerateFinalAnswer
    \/ NodeRaises

Spec == Init /\ [][Next]_vars

---------------------------------------------------------------------------
(* Properties *)

Last(seq) == seq[Len(seq)]

IsPrefix(a, b) == Len(a) <= Len(b) /\ \A i \in 1..Len(a) : a[i] = b[i]

\* a validate_cypher pass has just returned and its routing is pending
JustValidated ==
    /\ pc \in { "correct_cypher", "execute_cypher" }
    /\ steps # <<>>
    /\ Last(steps) = "validate_cypher"

\* the direction check of the last pass found no schema-compatible form
DirectionRejected ==
    /\ cypher_query_corrector
    /\ entered_statement # NoStatement
    /\ ~TruthyStatement(CypherQueryCorrector(entered_statement))

\* the last pass is the first one of the run and its dry run and semantic
\* check reported no error
FirstPassClean ==
    /\ Count(steps, "validate_cypher") = 1
    /\ dry_run = "ok"
    /\ llm_output.errors = <<>>

HappyPath ==
    << "guardrails", "generate_cypher", "validate_cypher", "execute_cypher",
       "generate_final_answer" >>

\* C1: after a validate_cypher pass that reported a syntax error or a
\* semantic error, the next stage is correct_cypher (execute_cypher is not
\* entered), whether or not the pass also recorded missing value mappings.
C1_FatalErrorRoutesToCorrection ==
    (JustValidated /\ (dry_run = "syntax_error" \/ llm_output.errors # <<>>))
        => pc = "correct_cypher"

\* C2: a validate_cypher pass whose only diagnostics are missing value
\* mappings (dry run accepted, direction check accepted, no semantic error)
\* routes to execute_cypher, never to correct_cypher.
C2_AdvisoryOnlyExecutes ==
    ( /\ JustValidated
      /\ mapping_errors # <<>>
      /\ dry_run = "ok"
      /\ ~DirectionRejected
      /\ llm_output.errors = <<>> )
        => pc = "execute_cypher"

C2_Witness ==
    /\ JustValidated
    /\ mapping_errors # <<>>
    /\ cypher_errors = <<>>
    /\ pc = "execute_cypher"

\* C3: every missing-value-mapping diagnostic a validate_cypher pass records
\* is an element of cypher_errors after the pass, and still is while
\* execute_cypher and generate_final_answer run.
C3_MappingDiagnosticsInCypherErrors ==
    pc \in { "correct_cypher", "execute_cypher", "generate_final_answer", "END" }
        => \A i \in DOMAIN mapping_errors :
              \E j \in DOMAIN cypher_errors : cypher_errors[j] = mapping_errors[i]

\* C4: a validate_cypher pass whose direction check finds no
\* schema-compatible form of the statement routes to correct_cypher,
\* whatever the dry run, the semantic check and the value mapping gave.
C4_SchemaMismatchRoutesToCorrection ==
    (JustValidated /\ DirectionRejected) => pc = "correct_cypher"

\* C5: a run whose question the guardrail classifies off-topic visits only
\* guardrails and generate_final_answer, carries the refusal message in
\* database_records, and returns an empty cypher_statement.
C5_OffTopicShortCircuit ==
    guardrails_output = "end" =>
        /\ IsPrefix(steps, << "guardrails", "generate_final_answer" >>)
        /\ pc \in { "generate_final_answer", "END", "ABORTED" }
        /\ database_records = PyStr(RefusalMessage)
        /\ executed_statement = NoStatement
        /\ pc = "END" =>
              /\ steps = << "guardrails", "generate_final_answer" >>
              /\ cypher_statement = EmptyStatement

C5_Witness == pc = "END" /\ guardrails_output = "end"

\* C6 as stated: an on-topic run whose first draft passes the dry run and the
\* semantic check takes exactly the path guardrails, generate_cypher,
\* validate_cypher, execute_cypher, generate_final_answer.
C6_CleanFirstDraftTakesHappyPath ==
    FirstPassClean =>
        /\ IsPrefix(steps, HappyPath)
        /\ pc # "correct_cypher"
        /\ pc = "END" => steps = HappyPath

\* C6 (amended): an on-topic run whose first draft passes the dry run and the
\* semantic check, and is not rejected by the direction check, takes exactly
\* the path guardrails, generate_cypher, validate_cypher, execute_cypher,
\* generate_final_answer; correct_cypher never appears.
C6_AcceptedFirstDraftTakesHappyPath ==
    (FirstPassClean /\ ~DirectionRejected) =>
        /\ IsPrefix(steps, HappyPath)
        /\ pc # "correct_cypher"
        /\ pc = "END" => steps = HappyPath

C6_Witness ==
    /\ pc = "END"
    /\ FirstPassClean
    /\ steps = HappyPath

C8_StepsAppendOnly ==
    /\ steps = <<>>
    /\ [][ /\ (pc' # pc /\ pc' # "ABORTED") => steps' = Append(steps, pc)
           /\ (pc' = pc \/ pc' = "ABORTED") => steps' = steps ]_vars

C8_Witness ==
    /\ pc = "END"
    /\ Count(steps, "correct_cypher") = MaxCorrections
    /\ Len(steps) = 5 + 2 * MaxCorrections

\* the edges of the workflow
Edges ==
    { << "guardrails", "generate_cypher" >>,
      << "guardrails", "generate_final_answer" >>,
      << "generate_cypher", "validate_cypher" >>,
      << "validate_cypher", "correct_cypher" >>,
      << "validate_cypher", "execute_cypher" >>,
      << "correct_cypher", "validate_cypher" >>,
      << "execute_cypher", "generate_final_answer" >>,
      << "generate_final_answer", "END" >> }

\* C9: every transition of a run is an edge of the workflow (so
\* validate_cypher never goes straight to generate_final_answer); guardrails
\* and generate_cypher run at most once, generate_final_answer at most once
\* and only as the last stage.
C9_OnlyWorkflowEdges ==
    /\ \A i \in DOMAIN steps : i < Len(steps) => << steps[i], steps[i + 1] >> \in Edges
    /\ steps = <<>> => pc \in { "guardrails", "ABORTED" }
    /\ (steps # <<>> /\ pc # "ABORTED") => << Last(steps), pc >> \in Edges
    /\ Count(steps, "guardrails") <= 1
    /\ Count(steps, "generate_cypher") <= 1
    /\ Count(steps, "generate_final_answer") <= 1
    /\ Count(steps, "generate_final_answer") = 1 =>
          (Last(steps) = "generate_final_answer" /\ pc = "END")

C9_Witness ==
    /\ pc = "END"
    /\ Count(steps, "correct_cypher") >= 1
    /\ Count(steps, "execute_cypher") = 1

\* C10: when the store returns zero rows for the executed statement,
\* database_records is the no_results text; it is never an empty list.
C10_ZeroRowsGiveSentinel ==
    /\ records = PyList(<<>>) => database_records = PyStr(no_results)
    /\ database_records # PyList(<<>>)

C10_Witness ==
    /\ pc = "generate_final_answer"
    /\ records = PyList(<<>>)
    /\ database_records = PyStr(no_results)

\* C11: a step taken from execute_cypher never aborts the run: it goes to
\* generate_final_answer, appends execute_cypher to steps and leaves
\* cypher_statement alone; when the store raised, database_records is the
\* text describing the error.
C11_ExecuteFailureCaptured ==
    [][pc = "execute_cypher" =>
          /\ pc' = "generate_final_answer"
          /\ failure' = "none"
          /\ steps' = Append(steps, "execute_cypher")
          /\ cypher_statement' = cypher_statement
          /\ (caught' # "" =>
                database_records' = PyStr("Error executing query: " \o caught'))]_vars

C11_Witness ==
    /\ pc = "generate_final_answer"
    /\ caught # ""
    /\ database_records = PyStr("Error executing query: " \o caught)
    /\ Last(steps) = "execute_cypher"

\* the payloads answer synthesis may receive
FinalPayloads ==
    { PyStr(RefusalMessage), PyStr(no_results),
      PyStr("Error executing query: " \o StoreErrorText) }
        \cup { PyList(rows) : rows \in RowSets \ { <<>> } }

\* C12: whenever generate_final_answer runs (and after it has run),
\* database_records is the refusal message, a non-empty list of rows, the
\* no_results text or an error text; never None, never an empty list.
C12_FinalPayloadNonEmpty ==
    pc \in { "generate_final_answer", "END" } =>
        /\ database_records \in FinalPayloads
        /\ database_records # PyNone
        /\ database_records # PyList(<<>>)
        /\ database_records # PyStr("")

C12_Witness ==
    /\ pc = "generate_final_answer"
    /\ database_records.type = "list"
    /\ Last(steps) = "execute_cypher"

\* the calls to the language model, one per chain
LlmCalls ==
    { "guardrails_chain", "text2cypher_chain", "validate_cypher_chain",
      "correct_cypher_chain", "generate_final_chain" }

\* C13: a rejection of the statement by the store during EXPLAIN never
\* aborts the run; a pass whose EXPLAIN was rejected has the error in
\* cypher_errors and (no missing value mapping being reported) goes on to
\* correct_cypher.
C13_DryRunRejectionNonFatal ==
    /\ failure \notin { "explain_client_error", "explain_unavailable" }
    /\ (JustValidated /\ dry_run = "syntax_error") =>
            \E i \in DOMAIN cypher_errors : cypher_errors[i] = SyntaxErrorMessage
    /\ (JustValidated /\ dry_run = "syntax_error" /\ mapping_errors = <<>>) =>
            pc = "correct_cypher"

\* C14: no store failure aborts a run: a run never ends by an exception of
\* the existence probe of validate_cypher.
C14_ProbeFailureAbsorbed ==
    ~(pc = "ABORTED" /\ failure = "probe")

\* C15: a failing language-model call ends the run with no answer and no
\* further step; answer_question then returns success=False, the question,
\* the apology text, steps ['error'] and an empty cypher_query. A completed
\* run returns success=True with the workflow's answer, steps and statement.
C15_AgentResult ==
    /\ [](failure \in LlmCalls =>
            /\ pc = "ABORTED"
            /\ answer = ""
            /\ agent_result.returned
            /\ agent_result.success = FALSE
            /\ agent_result.question = question
            /\ agent_result.answer = "Sorry, I encountered an error: " \o failure
            /\ agent_result.steps = <<"error">>
            /\ agent_result.cypher_query = EmptyStatement)
    /\ [](pc = "END" =>
            /\ failure = "none"
            /\ agent_result.returned
            /\ agent_result.success = TRUE
            /\ agent_result.question = question
            /\ agent_result.answer = answer
            /\ agent_result.steps = steps
            /\ agent_result.cypher_query = cypher_statement)
    /\ [](pc \notin { "END", "ABORTED" } => agent_result = NoResult)
    /\ [][pc # "ABORTED"]_vars

C15_Witness ==
    /\ pc = "ABORTED"
    /\ failure = "correct_cypher_chain"
    /\ steps # <<>>
    /\ agent_result.steps = <<"error">>

C17_StatementIsCorrectorOutput ==
    /\ (JustValidated /\ cypher_query_corrector) =>
            cypher_statement = CypherQueryCorrector(entered_statement)
    /\ (JustValidated /\ ~cypher_query_corrector) =>
            cypher_statement = entered_statement
    /\ (executed_statement # NoStatement /\ cypher_query_corrector) =>
            executed_statement = CypherQueryCorrector(entered_statement)

C17_Witness ==
    /\ pc = "generate_final_answer"
    /\ cypher_query_corrector
    /\ entered_statement = StmtWorksForReversed
    /\ executed_statement = Stmt("Organization", "WORKSFOR", "<-", "Person")

\* C18: in a pass in which the direction check rewrote the statement, the
\* statement handed to the semantic check is the rewritten one.
C18_SemanticCheckGetsCorrected ==
    (/\ JustValidated
     /\ cypher_query_corrector
     /\ TruthyStatement(CypherQueryCorrector(entered_statement))
     /\ CypherQueryCorrector(entered_statement) # entered_statement)
        => semantic_check_cypher = CypherQueryCorrector(entered_statement)

\* C19: when correct_cypher runs, the errors it hands to the corrector are
\* the cypher_errors of the pass just made, and the statement it hands over
\* is not empty when the draft that entered that pass was not.
C19_CorrectorGetsPreviousDraft ==
    [][(pc = "correct_cypher" /\ pc' = "validate_cypher") =>
          /\ corrector_errors' = cypher_errors
          /\ (TruthyStatement(entered_statement) => TruthyStatement(corrector_cypher'))]_vars

\* the diagnostics of the pass just made
PassDiagnostics ==
    (IF dry_run = "syntax_error" THEN <<SyntaxErrorMessage>> ELSE <<>>)
    \o (IF DirectionRejected THEN <<SchemaMismatchMessage>> ELSE <<>>)
    \o llm_output.errors

\* C20: after a validate_cypher pass cypher_errors holds the diagnostics of
\* that pass and nothing of an earlier pass; correct_cypher and
\* execute_cypher leave cypher_errors as it is.
C20_CypherErrorsReplaced ==
    /\ [](JustValidated => cypher_errors = PassDiagnostics)
    /\ [][(pc \in { "correct_cypher", "execute_cypher" }) =>
            cypher_errors' = cypher_errors]_vars

C20_Witness ==
    /\ JustValidated
    /\ Count(steps, "validate_cypher") = 2
    /\ dry_run = "ok"
    /\ cypher_errors = llm_output.errors
    /\ cypher_errors # <<>>

DeclaredString(f) ==
    \E p \in NodeProps :
        p.label = f.node_label /\ p.property = f.property_key /\ p.type = "STRING"

\* the filters of the pass whose probe returned no row
Unmatched == { i \in DOMAIN probes : probes[i] = "empty" }

\* C23: in a pass, a probe is issued for exactly the filters whose property
\* is declared STRING on their label; mapping_errors holds one diagnostic
\* for each probe that returned no row, and nothing else.
C23_ProbesForStringFilters ==
    JustValidated =>
        /\ Len(probes) = Len(llm_output.filters)
        /\ \A i \in DOMAIN probes :
                (probes[i] # "none") <=> DeclaredString(llm_output.filters[i])
        /\ Len(mapping_errors) = Cardinality(Unmatched)
        /\ \A i \in Unmatched :
                \E j \in DOMAIN mapping_errors :
                    mapping_errors[j] = MissingValueMapping(llm_output.filters[i])
        /\ \A j \in DOMAIN mapping_errors :
                \E i \in Unmatched :
                    mapping_errors[j] = MissingValueMapping(llm_output.filters[i])

C23_Witness ==
    /\ JustValidated
    /\ llm_output.filters =
            << Property("Person", "age", "42"), Property("Person", "id", "Michael Dell") >>
    /\ probes = << "none", "empty" >>
    /\ Len(mapping_errors) = 1

\* C25: the few-shot block handed to text2cypher_chain is the first five
\* examples of the bank, in bank order, whatever the question.
C25_FewshotIsBankPrefix ==
    Count(steps, "generate_cypher") = 1 =>
        fewshot_examples =
            FewshotEntry(examples[1]) \o "\n\n" \o FewshotEntry(examples[2]) \o "\n\n"
            \o FewshotEntry(examples[3]) \o "\n\n" \o FewshotEntry(examples[4]) \o "\n\n"
            \o FewshotEntry(examples[5])

C25_Witness ==
    /\ pc = "validate_cypher"
    /\ question = examples[1].question
    /\ fewshot_examples # ""

\* C27: in a completed run that executed a statement, the cypher_statement
\* returned is the statement execute_cypher handed to the store, which is
\* the one the last validate_cypher pass wrote.
C27_ReturnedStatementIsExecuted ==
    (pc \in { "generate_final_answer", "END" } /\ Count(steps, "execute_cypher") = 1) =>
        /\ cypher_statement = executed_statement
        /\ executed_statement = CorrectedCypher(entered_statement)
        /\ pc = "END" => agent_result.cypher_query = executed_statement

C27_Witness ==
    /\ pc = "END"
    /\ Count(steps, "correct_cypher") = 1
    /\ executed_statement = Stmt("Organization", "WORKSFOR", "<-", "Person")

\* C28: correct_cypher is entered only with a non-empty cypher_errors, and
\* a pass that leaves cypher_errors empty goes to execute_cypher.
C28_CorrectionNeedsErrors ==
    /\ pc = "correct_cypher" => (JustValidated /\ cypher_errors # <<>>)
    /\ (JustValidated /\ cypher_errors = <<>>) => pc = "execute_cypher"

C28_Witness ==
    /\ JustValidated
    /\ cypher_errors = <<>>
    /\ mapping_errors # <<>>
    /\ pc = "execute_cypher"

\* C29: both conditional edges always find a target: after guardrails
\* next_action is "network" or "end", after validate_cypher it is
\* "correct_cypher" or "execute_cypher", and the workflow is never left
\* without a next stage.
C29_RoutingTotal ==
    /\ pc \in Nodes \cup { "END", "ABORTED" }
    /\ (steps # <<>> /\ Last(steps) = "guardrails") =>
            next_action \in { "network", "end" }
    /\ (steps # <<>> /\ Last(steps) = "validate_cypher") =>
            next_action \in { "correct_cypher", "execute_cypher" }

C29_Witness ==
    /\ JustValidated
    /\ mapping_errors # <<>>
    /\ cypher_errors # <<>>
    /\ next_action = "execute_cypher"

\* C30: when no direction corrector could be built, a validate_cypher pass
\* leaves cypher_statement as it entered, reports no schema mismatch, and
\* routes by the dry run, the semantic check and the value mappings alone.
C30_NoCorrectorSkipsSchemaCheck ==
    (JustValidated /\ ~cypher_query_corrector) =>
        /\ cypher_statement = entered_statement
        /\ \A i \in DOMAIN cypher_errors : cypher_errors[i] # SchemaMismatchMessage
        /\ cypher_errors =
              (IF dry_run = "syntax_error" THEN <<SyntaxErrorMessage>> ELSE <<>>)
                  \o llm_output.errors
        /\ next_action =
              (IF mapping_errors # <<>> THEN "execute_cypher"
               ELSE IF dry_run = "syntax_error" \/ llm_output.errors # <<>>
                    THEN "correct_cypher"
               ELSE "execute_cypher")

C30_Witness ==
    /\ pc = "execute_cypher"
    /\ JustValidated
    /\ ~cypher_query_corrector
    /\ entered_statement = StmtManages
    /\ cypher_errors = <<>>

---------------------------------------------------------------------------
(* Runs in which every call returns and the correction loop ends *)

\* the semantic check's outputs drawn in these runs
LiveValidateCypherOutputs ==
    { out \in ValidateCypherOutputs : Len(out.filters) <= LiveMaxFilters }

\* _validate_cypher as the channels see it, its locals not kept (dry_run is:
\* the store rejects again at execution what it rejected in the dry run), in
\* a run whose loop is given, at the latest after MaxCorrections
\* corrections, a pass that routes to execute_cypher
LiveValidateCypher ==
    /\ pc = "validate_cypher"
    /\ \E dry \in DryRunOutcomes(cypher_statement), out \in LiveValidateCypherOutputs :
        \E probe \in ProbeSeqs(out.filters) :
            LET errors == ValidationErrors(cypher_statement, dry, out)
                mapping == MappingErrorsOf(out.filters, probe, 1)
            IN  /\ dry_run' = dry
                /\ next_action' = ValidationNextAction(errors, mapping)
                /\ cypher_statement' = CorrectedCypher(cypher_statement)
                /\ cypher_errors' = ReturnedCypherErrors(errors)
                /\ pc' = validate_cypher_condition(ValidationNextAction(errors, mapping))
    /\ Count(steps, "correct_cypher") >= MaxCorrections => pc' = "execute_cypher"
    /\ steps' = StepsPlus("validate_cypher")
    /\ channels' = channels \cup { "next_action", "cypher_statement", "cypher_errors", "steps" }
    /\ corrector_cypher' = NoStatement
    /\ corrector_errors' = <<>>
    /\ UNCHANGED <<question, database_records, answer, cypher_query_corrector,
                   guardrails_output, execute_locals, failure, agent_result,
                   fewshot_examples, entered_statement, llm_output, probes,
                   mapping_errors, semantic_check_cypher>>
    /\ UNCHANGED <<startup_vars, concurrent_vars>>

\* the stages of a run in which no call raises out of a node
LiveNext ==
    \/ Guardrails
    \/ GenerateCypher
    \/ LiveValidateCypher
    \/ CorrectCypher
    \/ ExecuteCypher
    \/ GenerateFinalAnswer

\* the workflow runs the next stage as long as there is one
LiveSpec == Init /\ [][LiveNext]_vars /\ WF_vars(LiveNext)

\* C26: when every call returns and the loop is given a pass that routes to
\* execute_cypher, every run reaches generate_final_answer and then END;
\* from execute_cypher the only step is to generate_final_answer and from
\* there the only step is to END.
C26_RunsTerminate ==
    /\ <>(pc = "generate_final_answer")
    /\ <>(pc = "END")
    /\ [](pc = "END" => Last(steps) = "generate_final_answer")
    /\ [][(pc = "execute_cypher") => pc' = "generate_final_answer"]_vars
    /\ [][(pc = "generate_final_answer") => pc' = "END"]_vars
    /\ [][pc # "END"]_vars

C26_Witness ==
    /\ pc = "END"
    /\ Count(steps, "correct_cypher") = MaxCorrections
    /\ Count(steps, "execute_cypher") = 1

---------------------------------------------------------------------------
(* Startup of a front end *)

\* a front end just started, in any environment
StartupInit ==
    /\ RunInit
    /\ environment \in [ Settings -> EnvValues ]
    /\ front_end \in FrontEnds
    /\ startup = "validate"
    /\ scripts = <<>>
    /\ runs = <<>>

\* the front end calls Config.validate(); when it raises, main.py and
\* agent.py exit and streamlit_app.py shows the error and returns
ValidateConfig ==
    /\ startup = "validate"
    /\ startup' = (IF validate(Config(environment)) THEN "construct" ELSE "stopped")
    /\ UNCHANGED <<environment, front_end, run_vars, concurrent_vars>>

\* the front end constructs its GraphWorkflow (main.py tests the connection
\* first): the store and the model client are reached with the attributes
\* of Config, defaults included, or the front end stops
ConstructWorkflow ==
    /\ startup = "construct"
    /\ \E constructed \in BOOLEAN :
        startup' = (IF constructed THEN "serving" ELSE "stopped")
    /\ UNCHANGED <<environment, front_end, run_vars, concurrent_vars>>

\* startup, and the first stage of the first question
StartupNext ==
    \/ ValidateConfig
    \/ ConstructWorkflow
    \/ Guardrails

StartupSpec == StartupInit /\ [][StartupNext]_vars

\* C24: when one of the three settings is absent from the environment, the
\* front end stops at Config.validate: no GraphWorkflow is constructed and
\* no question is processed.
C24_MissingConfigStopsStartup ==
    (\E setting \in Settings : environment[setting] = "absent") =>
        /\ startup \in { "validate", "stopped" }
        /\ steps = <<>>

---------------------------------------------------------------------------
(* Concurrent runs on one GraphWorkflow *)

Runs == 1..MaxRuns

\* the semantic check's outputs used in the scripts
CleanOutput == [errors |-> <<>>, filters |-> <<>>]
ErrorOutput == [errors |-> CHOOSE e \in LlmErrorLists : e # <<>>, filters |-> <<>>]
FilterOutput == [errors |-> <<>>, filters |-> << Property("Person", "id", "Michael Dell") >>]

\* what the collaborators and the store answer one run, call by call:
\* the classifier's decision, the drafts (text2cypher_chain, then
\* correct_cypher_chain), per validate_cypher pass the dry run, the semantic
\* check and the probes, the store's result at execution, the final answer
Scripts ==
    { [question |-> "What is the weather today?", decision |-> "end",
       drafts |-> <<>>, dry |-> <<>>, out |-> <<>>, probe |-> <<>>,
       result |-> [raised |-> FALSE, rows |-> <<>>], answer |-> "refusal"],
      [question |-> "Tell me about Michael Dell", decision |-> "network",
       drafts |-> << StmtWorksFor >>, dry |-> << "ok" >>, out |-> << CleanOutput >>,
       probe |-> << <<>> >>,
       result |-> [raised |-> FALSE, rows |-> << "row1" >>], answer |-> "answer1"],
      [question |-> "Who works for Dell Technologies?", decision |-> "network",
       drafts |-> << StmtWorksForReversed >>, dry |-> << "ok" >>, out |-> << CleanOutput >>,
       probe |-> << <<>> >>,
       result |-> [raised |-> FALSE, rows |-> <<>>], answer |-> "answer2"],
      [question |-> "Who manages Dell Technologies?", decision |-> "network",
       drafts |-> << StmtManages, StmtPerson >>, dry |-> << "ok", "ok" >>,
       out |-> << CleanOutput, CleanOutput >>, probe |-> << <<>>, <<>> >>,
       result |-> [raised |-> TRUE, rows |-> <<>>], answer |-> "answer3"],
      [question |-> "Who does Michael Dell know?", decision |-> "network",
       drafts |-> << StmtPerson, StmtKnowsIncoming >>, dry |-> << "syntax_error", "ok" >>,
       out |-> << ErrorOutput, FilterOutput >>, probe |-> << <<>>, << "empty" >> >>,
       result |-> [raised |-> FALSE, rows |-> << "row1", "row2" >>], answer |-> "answer4"] }

\* the state invoke builds from {"question": question}
InitialState(q) ==
    [pc |-> "guardrails", question |-> q, next_action |-> "None",
     cypher_statement |-> NoStatement, cypher_errors |-> <<>>,
     database_records |-> PyNone, steps |-> <<>>, answer |-> ""]

\* one stage of a run: the node st.pc applied to the state st it is handed,
\* its calls answered by the script sc
NodeStep(st, sc) ==
    LET pass == Count(st.steps, "validate_cypher") + 1
        draft == Count(st.steps, "correct_cypher") + 2
        after == [st EXCEPT !.steps = Append(st.steps, st.pc)]
    IN  CASE st.pc = "guardrails" ->
                [after EXCEPT !.next_action = sc.decision,
                              !.database_records = GuardrailsRecords(sc.decision),
                              !.pc = guardrails_condition(sc.decision)]
          [] st.pc = "generate_cypher" ->
                [after EXCEPT !.cypher_statement = sc.drafts[1],
                              !.pc = "validate_cypher"]
          [] st.pc = "validate_cypher" ->
                LET errors == ValidationErrors(st.cypher_statement, sc.dry[pass], sc.out[pass])
                    mapping == MappingErrorsOf(sc.out[pass].filters, sc.probe[pass], 1)
                IN  [after EXCEPT !.next_action = ValidationNextAction(errors, mapping),
                                  !.cypher_statement = CorrectedCypher(st.cypher_statement),
                                  !.cypher_errors = ReturnedCypherErrors(errors),
                                  !.pc = validate_cypher_condition(
                                            ValidationNextAction(errors, mapping))]
          [] st.pc = "correct_cypher" ->
                [after EXCEPT !.next_action = "validate_cypher",
                              !.cypher_statement = sc.drafts[draft],
                              !.pc = "validate_cypher"]
          [] st.pc = "execute_cypher" ->
                [after EXCEPT !.next_action = "end",
                              !.database_records = ExecuteRecords(sc.result),
                              !.pc = "generate_final_answer"]
          [] st.pc = "generate_final_answer" ->
                [after EXCEPT !.answer = sc.answer,
                              !.cypher_statement =
                                    IF st.cypher_statement = NoStatement
                                    THEN EmptyStatement ELSE st.cypher_statement,
                              !.pc = "END"]
          [] OTHER -> st

\* a state dict kept on the instance instead of one per invocation
StateOf_SingleSlot(r) == runs[1]

\* the state a node of run r is handed: the one invoke built for that run
StateOf(r) == runs[r]

\* runs invoked together on one workflow, each with its own answers
ConcurrentInit ==
    /\ RunInit
    /\ environment = [ setting \in Settings |-> "set" ]
    /\ front_end = "streamlit_app.py"
    /\ startup = "serving"
    /\ scripts \in [ Runs -> Scripts ]
    /\ runs = [ r \in Runs |-> InitialState(scripts[r].question) ]

\* the next stage of run r
RunStage(r) ==
    /\ runs[r].pc \in Nodes
    /\ runs' = [runs EXCEPT ![r] = NodeStep(StateOf(r), scripts[r])]
    /\ UNCHANGED <<scripts, run_vars, startup_vars>>

ConcurrentNext == \E r \in Runs : RunStage(r)

ConcurrentSpec == ConcurrentInit /\ [][ConcurrentNext]_vars

\* the state of a run with answers sc after k stages, run alone
RECURSIVE AloneAfter(_, _)
AloneAfter(sc, k) ==
    IF k = 0 THEN InitialState(sc.question) ELSE NodeStep(AloneAfter(sc, k - 1), sc)

====
